---- MODULE Spec2Model ----
(***************************************************************************)
(* Model of src/app.py: the two-pass structure / call-graph builder        *)
(* (CodeAnalyzer, analyze_code) and the line-range text patcher            *)
(* (index, save_code, original_code_store).                                *)
(*                                                                         *)
(* Analyzer input.  A source file is a sequence of syntax nodes in the     *)
(* order ast.NodeVisitor meets them (pre-order):                           *)
(*   "class"  n : a ClassDef at module level                               *)
(*   "method" n : a FunctionDef whose parent is the most recent ClassDef   *)
(*   "func"   n : a FunctionDef at module level                            *)
(*   "call"   n : a Call in the body of the most recent definition header  *)
(*                (a method, a function, or directly a class body), or at  *)
(*                module level when no definition precedes it; n is what   *)
(*                get_call_name returns (NoName for None).                 *)
(* Ids are tuples: <<n>> for "n" and <<c, n>> for "c.n" (identifiers hold  *)
(* no "."), None is <<>>.  The fields code, start_line and end_line of a   *)
(* node are not modelled: no operation of the builder reads them.          *)
(***************************************************************************)
EXTENDS Integers, Sequences, FiniteSets, TLC

VARIABLES
    src,               \* analyzer: the parsed source (self.code_content)
    pc,                \* analyzer: "pass1", "pass2", "returned", "error"
    idx,               \* analyzer: position of the next node to visit
    heap,              \* analyzer: node_info dicts, by object identity
    rootChildren,      \* analyzer: self.structure['children'] (object refs)
    definitions,       \* analyzer: self.definitions, id -> object ref
    current_scope_id,  \* analyzer: self.current_scope_id
    frames,            \* analyzer: saved original_scope of the open visits
    original_code_store, \* patcher: the process-wide dict filename -> text
    uploads,           \* patcher: the files of UPLOAD_FOLDER, filename -> text
    tpc,               \* patcher: position of each request thread in save_code
    req,               \* patcher: the JSON body each thread is serving
    original_code,     \* patcher: local of save_code
    modified_code,     \* patcher: local of save_code
    response,          \* patcher: the response each thread returns
    baseline,          \* history: the text last committed to the store
    base,              \* history: baseline when the thread's request arrived
    writesSince,       \* history: writes of the record (file open, store update) since the thread's read (0..5)
    lastCommitter,     \* history: the thread of the latest store commit
    uploadedLines      \* history: line count of the text the upload stored

avars == <<src, pc, idx, heap, rootChildren, definitions, current_scope_id, frames>>
pvars == <<original_code_store, uploads, tpc, req, original_code, modified_code,
           response, baseline, base, writesSince, lastCommitter, uploadedLines>>
vars == <<avars, pvars>>

\* ---------------------------------------------------------------- bounds
MaxNodes == 5
MaxUploadLen == 2
MaxEditLen == 1
MaxLine == 2
MaxTextLen == 3

\* ---------------------------------------------------------------- inputs
None == <<>>
NoName == "<none>"
DefNames == {"C", "n"}
MethodNames == {"m", "n"}
CalleeNames == {"C", "n", NoName}

Tokens ==
    [kind : {"class", "func"}, name : DefNames]
        \cup [kind : {"method"}, name : MethodNames]
        \cup [kind : {"call"}, name : CalleeNames]

Range(s) == {s[i] : i \in DOMAIN s}

\* index of the ClassDef that is the syntactic parent of node i (0: none)
RECURSIVE ParentClass(_, _)
ParentClass(s, i) ==
    IF i <= 1 THEN 0
    ELSE IF s[i - 1].kind = "class" THEN i - 1
    ELSE IF s[i - 1].kind = "func" THEN 0
    ELSE ParentClass(s, i - 1)

WellFormed(s) == \A i \in DOMAIN s : s[i].kind = "method" => ParentClass(s, i) # 0

Sources ==
    {s \in UNION {[1..k -> Tokens] : k \in 0..MaxNodes} : WellFormed(s)}

\* ------------------------------------------------------------ node dicts
AppendNew(seq, x) == IF x \in Range(seq) THEN seq ELSE Append(seq, x)

HasKey(node, key) == key \in DOMAIN node

ClassNodeInfo(name) ==
    [name |-> name, id |-> <<name>>, type |-> "class",
     children |-> <<>>, instantiated_by |-> <<>>]

FuncNodeInfo(name, func_id, func_type) ==
    [name |-> name, id |-> func_id, type |-> func_type,
     calls |-> <<>>, called_by |-> <<>>, instantiates |-> <<>>]

\* is_method / func_id / func_type of visit_FunctionDef
IsMethod(s, i) == s[i].kind = "method"

FuncId(s, i) ==
    IF IsMethod(s, i) THEN <<s[ParentClass(s, i)].name, s[i].name>>
    ELSE <<s[i].name>>

FuncType(s, i) == IF IsMethod(s, i) THEN "method" ELSE "function"

\* current_scope_id once the visits deeper than depth d have returned and
\* restored their original_scope
ScopeAfterReturn(fr, scope, d) == IF Len(fr) > d THEN fr[d + 1] ELSE scope

FramesAfterReturn(fr, d) == IF Len(fr) > d THEN SubSeq(fr, 1, d) ELSE fr

\* registration of a class in the index: first-seen wins
RegisterClass(defs, class_id, o) ==
    IF class_id \notin DOMAIN defs THEN defs @@ (class_id :> o) ELSE defs

\* the root child the fallback loop of visit_FunctionDef stops at (0: none)
FirstClassStruct(h, root, scope_name) ==
    LET hits == {k \in DOMAIN root :
                    h[root[k]].type = "class" /\ h[root[k]].name = scope_name}
    IN IF hits = {} THEN 0
       ELSE root[CHOOSE k \in hits : \A j \in hits : k <= j]

HasChildWithId(h, o, id) == \E k \in DOMAIN h[o].children : h[h[o].children[k]].id = id

\* heap after a new method node (object o) is attached to its parent class
AttachMethod(h, defs, root, scope_name, func_id, o) ==
    IF <<scope_name>> \in DOMAIN defs /\ h[defs[<<scope_name>>]].type = "class"
    THEN LET p == defs[<<scope_name>>]
         IN IF HasChildWithId(h, p, func_id) THEN h
            ELSE [h EXCEPT ![p].children = Append(@, o)]
    ELSE LET p == FirstClassStruct(h, root, scope_name)
         IN IF p = 0 \/ HasChildWithId(h, p, func_id) THEN h
            ELSE [h EXCEPT ![p].children = Append(@, o)]

\* root children after a new module-level function node (object o)
AttachFunction(h, root, func_id, o) ==
    IF \E k \in DOMAIN root : h[root[k]].type = "function" /\ h[root[k]].id = func_id
    THEN root
    ELSE Append(root, o)

\* ------------------------------------------------------------ visit_Call
PotentialCalleeIds(caller_id, callee_name) ==
    IF Len(caller_id) = 2
    THEN <<(<<caller_id[1], callee_name>>), (<<callee_name>>)>>
    ELSE <<(<<callee_name>>)>>

FoundCalleeId(h, defs, caller_id, callee_name) ==
    LET ps == PotentialCalleeIds(caller_id, callee_name)
        ok == {k \in DOMAIN ps :
                  ps[k] \in DOMAIN defs /\ h[defs[ps[k]]].type \in {"function", "method"}}
    IN IF ok = {} THEN None
       ELSE ps[CHOOSE k \in ok : \A j \in ok : k <= j]

IsKnownClass(h, defs, callee_name) ==
    <<callee_name>> \in DOMAIN defs /\ h[defs[<<callee_name>>]].type = "class"

RecordInstantiation(h, defs, caller_id, class_id) ==
    LET h1 == [h EXCEPT ![defs[caller_id]].instantiates = AppendNew(@, class_id)]
    IN [h1 EXCEPT ![defs[class_id]].instantiated_by = AppendNew(@, caller_id)]

RecordCallOneWay(h, defs, caller_id, found_callee_id) ==
    [h EXCEPT ![defs[caller_id]].calls = AppendNew(@, found_callee_id)]

RecordCall(h, defs, caller_id, found_callee_id) ==
    LET h1 == [h EXCEPT ![defs[caller_id]].calls = AppendNew(@, found_callee_id)]
    IN [h1 EXCEPT ![defs[found_callee_id]].called_by = AppendNew(@, caller_id)]

\* the call is processed at all (scope set, caller known, callee has a name)
CallProcessed(defs, scope, callee_name) ==
    scope # None /\ scope \in DOMAIN defs /\ callee_name # NoName

\* the dict lookup on the caller's node raises KeyError
CallRaises(h, defs, scope, callee_name) ==
    /\ CallProcessed(defs, scope, callee_name)
    /\ IF IsKnownClass(h, defs, callee_name)
       THEN ~HasKey(h[defs[scope]], "instantiates")
       ELSE /\ FoundCalleeId(h, defs, scope, callee_name) # None
            /\ ~HasKey(h[defs[scope]], "calls")

HeapAfterCall(h, defs, scope, callee_name) ==
    IF ~CallProcessed(defs, scope, callee_name) THEN h
    ELSE IF IsKnownClass(h, defs, callee_name)
    THEN RecordInstantiation(h, defs, scope, <<callee_name>>)
    ELSE LET f == FoundCalleeId(h, defs, scope, callee_name)
         IN IF f = None THEN h ELSE RecordCall(h, defs, scope, f)

\* ------------------------------------------------------------- patcher
(***************************************************************************)
(* A text is a sequence of characters.  "a" stands for any character that  *)
(* is not a line boundary, "LF" for \n, "CR" for \r and "FF" for any of    *)
(* the one-character boundaries of str.splitlines other than \n and \r     *)
(* (\v, \f, \x1c, \x1d, \x1e, \x85, U+2028, U+2029).  Files are written *)
(* and read in text mode on a POSIX system: writing leaves the characters  *)
(* as they are, reading translates \r\n and \r to \n.                      *)
(***************************************************************************)
Chars == {"a", "LF", "CR", "FF"}
Boundaries == {"LF", "CR", "FF"}
FileId == "f.py"
Threads == {1, 2}
Empty == <<>>
NoText == <<"<none>">>

TextsUpTo(n) == UNION {[1..k -> Chars] : k \in 0..n}

\* str.splitlines(True)
RECURSIVE SplitFrom(_, _, _, _)
SplitFrom(t, i, cur, acc) ==
    IF i > Len(t) THEN (IF cur = <<>> THEN acc ELSE Append(acc, cur))
    ELSE IF t[i] = "CR" /\ i < Len(t) /\ t[i + 1] = "LF"
    THEN SplitFrom(t, i + 2, <<>>, Append(acc, cur \o <<"CR", "LF">>))
    ELSE IF t[i] \in Boundaries
    THEN SplitFrom(t, i + 1, <<>>, Append(acc, Append(cur, t[i])))
    ELSE SplitFrom(t, i + 1, Append(cur, t[i]), acc)

SplitLines(t) == SplitFrom(t, 1, <<>>, <<>>)

\* "".join(list)
RECURSIVE Join(_)
Join(ls) == IF ls = <<>> THEN <<>> ELSE Head(ls) \o Join(Tail(ls))

\* f.read() of a file opened with mode 'r': universal newlines
RECURSIVE ReadText(_)
ReadText(t) ==
    IF t = <<>> THEN <<>>
    ELSE IF t[1] = "CR" /\ Len(t) > 1 /\ t[2] = "LF"
    THEN <<"LF">> \o ReadText(SubSeq(t, 3, Len(t)))
    ELSE IF t[1] = "CR" THEN <<"LF">> \o ReadText(Tail(t))
    ELSE <<t[1]>> \o ReadText(Tail(t))

\* a write of text at offset 0 of a file that holds old
Overlay(text, old) ==
    IF Len(old) > Len(text) THEN text \o SubSeq(old, Len(text) + 1, Len(old)) ELSE text

\* edited_code after the endswith('\n') test
WithNewline(edited_code) ==
    IF edited_code # <<>> /\ edited_code[Len(edited_code)] = "LF" THEN edited_code
    ELSE Append(edited_code, "LF")

\* the "Basic validation" of save_code, negated
ValidRangeOffByOne(text, start_line, end_line) ==
    LET start_index == start_line - 1
        end_index == end_line
    IN ~(start_index < 0 \/ end_index > Len(SplitLines(text)) + 1 \/ start_index >= end_index)

ValidRange(text, start_line, end_line) ==
    LET start_index == start_line - 1
        end_index == end_line
    IN ~(start_index < 0 \/ end_index > Len(SplitLines(text)) \/ start_index >= end_index)

\* modified_code
PatchText(text, start_line, end_line, edited_code) ==
    LET lines == SplitLines(text)
        start_index == start_line - 1
        end_index == end_line
        new_lines == SubSeq(lines, 1, start_index) \o <<WithNewline(edited_code)>>
                         \o SubSeq(lines, end_index + 1, Len(lines))
    IN Join(new_lines)

\* the request has every field (the all([...]) test)
HasAllData(r) == r.filename # "" /\ r.edited_code # <<>>

\* original_code: the store entry, else the saved file, else nothing
CanLocate(store, files, filename) == filename \in DOMAIN store \/ filename \in DOMAIN files

ReadOriginalRawFile(store, files, filename) ==
    IF filename \in DOMAIN files THEN files[filename] ELSE store[filename]

ReadOriginal(store, files, filename) ==
    IF filename \in DOMAIN store THEN store[filename] ELSE ReadText(files[filename])

\* original_code_store[filename] = text
StoreTextKeepFirst(store, filename, text) ==
    IF filename \in DOMAIN store THEN store
    ELSE [x \in DOMAIN store \cup {filename} |-> IF x = filename THEN text ELSE store[x]]

StoreText(store, filename, text) ==
    [x \in DOMAIN store \cup {filename} |-> IF x = filename THEN text ELSE store[x]]

\* the upload folder after the file of that name is given the content text
FileWith(files, filename, text) ==
    [x \in DOMAIN files \cup {filename} |-> IF x = filename THEN text ELSE files[x]]

NoRequest == [filename |-> "", edited_code |-> <<>>, start_line |-> 0, end_line |-> 0]

Requests ==
    [filename : {FileId}, edited_code : TextsUpTo(MaxEditLen),
     start_line : 0..MaxLine, end_line : 0..MaxLine]

\* the requests of the two-thread specification: one-character edits
RaceRequests ==
    [filename : {FileId}, edited_code : {<<"a">>, <<"LF">>},
     start_line : {1}, end_line : {1, 2}]

\* the uploads of the two-thread specification: two-line texts
RaceUploads == {<<"LF", "LF">>, <<"a", "LF", "LF">>}

\* length of the text the request would store if it were served at once
ResultLen(r) ==
    IF ~CanLocate(original_code_store, uploads, r.filename) THEN 0
    ELSE LET text == ReadOriginal(original_code_store, uploads, r.filename)
         IN IF ValidRange(text, r.start_line, r.end_line)
            THEN Len(PatchText(text, r.start_line, r.end_line, r.edited_code))
            ELSE 0

PatcherIdle ==
    /\ original_code_store = <<>>
    /\ uploads = <<>>
    /\ tpc = [t \in Threads |-> "idle"]
    /\ req = [t \in Threads |-> NoRequest]
    /\ original_code = [t \in Threads |-> Empty]
    /\ modified_code = [t \in Threads |-> Empty]
    /\ response = [t \in Threads |-> "none"]
    /\ baseline = NoText
    /\ base = [t \in Threads |-> Empty]
    /\ writesSince = [t \in Threads |-> 0]
    /\ lastCommitter = 0
    /\ uploadedLines = 0

AnalyzerIdle ==
    /\ src = <<>>
    /\ pc = "returned"
    /\ idx = 1
    /\ heap = <<>>
    /\ rootChildren = <<>>
    /\ definitions = <<>>
    /\ current_scope_id = None
    /\ frames = <<>>

InitPatcher == AnalyzerIdle /\ PatcherIdle

\* writesSince after thread t writes the record: counted for every thread
\* that has read and not yet returned
WritesCounted(t) ==
    [u \in Threads |->
        IF (u = t \/ tpc[u] \in {"open", "write", "commit"}
                  \/ (tpc[u] = "respond" /\ response[u] = "ok"))
               /\ writesSince[u] < 5
        THEN writesSince[u] + 1 ELSE writesSince[u]]

\* index(): a POST with a .py file under a fresh timestamped name
Upload(raw) ==
    /\ FileId \notin DOMAIN uploads
    /\ uploads' = FileWith(uploads, FileId, raw)
    /\ original_code_store' = StoreText(original_code_store, FileId, ReadText(raw))
    /\ baseline' = ReadText(raw)
    /\ uploadedLines' = Len(SplitLines(ReadText(raw)))
    /\ UNCHANGED <<tpc, req, original_code, modified_code, response, base,
                   writesSince, lastCommitter>>
    /\ UNCHANGED avars

\* save_code: the request arrives and its fields are tested
Begin(t, r) ==
    /\ tpc[t] = "idle"
    /\ ResultLen(r) <= MaxTextLen
    /\ req' = [req EXCEPT ![t] = r]
    /\ base' = [base EXCEPT ![t] = baseline]
    /\ IF HasAllData(r)
       THEN /\ tpc' = [tpc EXCEPT ![t] = "read"]
            /\ response' = [response EXCEPT ![t] = "none"]
       ELSE /\ tpc' = [tpc EXCEPT ![t] = "respond"]
            /\ response' = [response EXCEPT ![t] = "MissingData"]
    /\ UNCHANGED <<original_code_store, uploads, original_code, modified_code,
                   baseline, writesSince, lastCommitter>>
    /\ UNCHANGED <<avars, uploadedLines>>

\* save_code: original_code is fetched, the range validated, the text spliced
Read(t) ==
    /\ tpc[t] = "read"
    /\ ResultLen(req[t]) <= MaxTextLen
    /\ IF ~CanLocate(original_code_store, uploads, req[t].filename)
       THEN /\ response' = [response EXCEPT ![t] = "NotFound"]
            /\ tpc' = [tpc EXCEPT ![t] = "respond"]
            /\ UNCHANGED <<original_code, modified_code>>
       ELSE LET text == ReadOriginal(original_code_store, uploads, req[t].filename)
            IN /\ original_code' = [original_code EXCEPT ![t] = text]
               /\ IF ValidRange(text, req[t].start_line, req[t].end_line)
                  THEN /\ modified_code' = [modified_code EXCEPT ![t] =
                              PatchText(text, req[t].start_line, req[t].end_line,
                                        req[t].edited_code)]
                       /\ tpc' = [tpc EXCEPT ![t] = "open"]
                       /\ UNCHANGED response
                  ELSE /\ response' = [response EXCEPT ![t] = "InvalidRange"]
                       /\ tpc' = [tpc EXCEPT ![t] = "respond"]
                       /\ UNCHANGED modified_code
    /\ writesSince' = [writesSince EXCEPT ![t] = 0]
    /\ UNCHANGED <<original_code_store, uploads, req, baseline, base, lastCommitter>>
    /\ UNCHANGED <<avars, uploadedLines>>

\* save_code: open(save_path, 'w') creates or truncates the file
Open(t) ==
    /\ tpc[t] = "open"
    /\ uploads' = FileWith(uploads, req[t].filename, Empty)
    /\ tpc' = [tpc EXCEPT ![t] = "write"]
    /\ writesSince' = WritesCounted(t)
    /\ UNCHANGED <<original_code_store, req, original_code, modified_code, response,
                   baseline, base, lastCommitter>>
    /\ UNCHANGED <<avars, uploadedLines>>

\* save_code: f.write(modified_code) reaches the file when the with block ends
Write(t) ==
    /\ tpc[t] = "write"
    /\ uploads' = FileWith(uploads, req[t].filename,
                           Overlay(modified_code[t], uploads[req[t].filename]))
    /\ tpc' = [tpc EXCEPT ![t] = "commit"]
    /\ UNCHANGED <<original_code_store, req, original_code, modified_code, response,
                   baseline, base, writesSince, lastCommitter>>
    /\ UNCHANGED <<avars, uploadedLines>>

\* save_code: the store is updated and the success response built
Commit(t) ==
    /\ tpc[t] = "commit"
    /\ original_code_store' = StoreText(original_code_store, req[t].filename, modified_code[t])
    /\ response' = [response EXCEPT ![t] = "ok"]
    /\ tpc' = [tpc EXCEPT ![t] = "respond"]
    /\ baseline' = modified_code[t]
    /\ lastCommitter' = t
    /\ writesSince' = WritesCounted(t)
    /\ UNCHANGED <<uploads, req, original_code, modified_code, base>>
    /\ UNCHANGED <<avars, uploadedLines>>

\* save_code returns; the thread is free for the next request
Respond(t) ==
    /\ tpc[t] = "respond"
    /\ tpc' = [tpc EXCEPT ![t] = "idle"]
    /\ req' = [req EXCEPT ![t] = NoRequest]
    /\ original_code' = [original_code EXCEPT ![t] = Empty]
    /\ modified_code' = [modified_code EXCEPT ![t] = Empty]
    /\ response' = [response EXCEPT ![t] = "none"]
    /\ base' = [base EXCEPT ![t] = Empty]
    /\ writesSince' = [writesSince EXCEPT ![t] = 0]
    /\ UNCHANGED <<original_code_store, uploads, baseline, lastCommitter>>
    /\ UNCHANGED <<avars, uploadedLines>>

\* the server process is started again: the module-level dict is empty, the
\* files of the upload folder remain
Restart ==
    /\ original_code_store # <<>>
    /\ original_code_store' = <<>>
    /\ tpc' = [t \in Threads |-> "idle"]
    /\ req' = [t \in Threads |-> NoRequest]
    /\ original_code' = [t \in Threads |-> Empty]
    /\ modified_code' = [t \in Threads |-> Empty]
    /\ response' = [t \in Threads |-> "none"]
    /\ base' = [t \in Threads |-> Empty]
    /\ writesSince' = [t \in Threads |-> 0]
    /\ lastCommitter' = 0
    /\ baseline' = NoText
    /\ UNCHANGED uploads
    /\ UNCHANGED <<avars, uploadedLines>>

\* requests served one after another
NextPatcher ==
    \/ \E raw \in TextsUpTo(MaxUploadLen) : Upload(raw)
    \/ \E r \in Requests : Begin(1, r)
    \/ Read(1)
    \/ Open(1)
    \/ Write(1)
    \/ Commit(1)
    \/ Respond(1)
    \/ Restart

SpecPatcher == InitPatcher /\ [][NextPatcher]_vars

\* requests served by concurrent threads (app.run: threaded server)
NextRace ==
    \/ \E raw \in RaceUploads : Upload(raw)
    \/ \E t \in Threads : \E r \in RaceRequests : Begin(t, r)
    \/ \E t \in Threads : Read(t)
    \/ \E t \in Threads : Open(t)
    \/ \E t \in Threads : Write(t)
    \/ \E t \in Threads : Commit(t)
    \/ \E t \in Threads : Respond(t)
    \/ Restart

SpecRace == InitPatcher /\ [][NextRace]_vars

\* -------------------------------------------------------------- analyzer
InitAnalyzer ==
    /\ src \in Sources
    /\ pc = "pass1"
    /\ idx = 1
    /\ heap = <<>>
    /\ rootChildren = <<>>
    /\ definitions = <<>>
    /\ current_scope_id = None
    /\ frames = <<>>
    /\ PatcherIdle

Visiting == pc \in {"pass1", "pass2"} /\ idx <= Len(src)

VisitClassDef ==
    /\ Visiting /\ src[idx].kind = "class"
    /\ LET class_id == <<src[idx].name>>
           o == Len(heap) + 1
           original_scope == ScopeAfterReturn(frames, current_scope_id, 0)
       IN /\ heap' = Append(heap, ClassNodeInfo(src[idx].name))
          /\ rootChildren' = Append(rootChildren, o)
          /\ definitions' = RegisterClass(definitions, class_id, o)
          /\ frames' = <<original_scope>>
          /\ current_scope_id' = class_id
    /\ idx' = idx + 1
    /\ UNCHANGED <<src, pc>>
    /\ UNCHANGED pvars

VisitFunctionDef ==
    /\ Visiting /\ src[idx].kind \in {"func", "method"}
    /\ LET d == IF IsMethod(src, idx) THEN 1 ELSE 0
           func_id == FuncId(src, idx)
           o == Len(heap) + 1
           h1 == Append(heap, FuncNodeInfo(src[idx].name, func_id, FuncType(src, idx)))
           original_scope == ScopeAfterReturn(frames, current_scope_id, d)
       IN /\ IF func_id \notin DOMAIN definitions
             THEN /\ definitions' = definitions @@ (func_id :> o)
                  /\ IF IsMethod(src, idx)
                     THEN /\ heap' = AttachMethod(h1, definitions @@ (func_id :> o), rootChildren,
                                         src[ParentClass(src, idx)].name, func_id, o)
                          /\ rootChildren' = rootChildren
                     ELSE /\ heap' = h1
                          /\ rootChildren' = AttachFunction(h1, rootChildren, func_id, o)
             ELSE UNCHANGED <<definitions, heap, rootChildren>>
          /\ frames' = Append(FramesAfterReturn(frames, d), original_scope)
          /\ current_scope_id' = func_id
    /\ idx' = idx + 1
    /\ UNCHANGED <<src, pc>>
    /\ UNCHANGED pvars

VisitCall ==
    /\ Visiting /\ src[idx].kind = "call"
    /\ IF CallRaises(heap, definitions, current_scope_id, src[idx].name)
       THEN /\ pc' = "error"
            /\ UNCHANGED <<heap, idx>>
       ELSE /\ heap' = HeapAfterCall(heap, definitions, current_scope_id, src[idx].name)
            /\ idx' = idx + 1
            /\ pc' = pc
    /\ UNCHANGED <<src, rootChildren, definitions, current_scope_id, frames>>
    /\ UNCHANGED pvars

\* build_structure between the passes: every visit has returned, scope reset
StartPass2 ==
    /\ pc = "pass1" /\ idx > Len(src)
    /\ pc' = "pass2"
    /\ idx' = 1
    /\ current_scope_id' = None
    /\ frames' = <<>>
    /\ UNCHANGED <<src, heap, rootChildren, definitions>>
    /\ UNCHANGED pvars

ReturnStructure ==
    /\ pc = "pass2" /\ idx > Len(src)
    /\ pc' = "returned"
    /\ current_scope_id' = ScopeAfterReturn(frames, current_scope_id, 0)
    /\ frames' = <<>>
    /\ UNCHANGED <<src, idx, heap, rootChildren, definitions>>
    /\ UNCHANGED pvars

NextAnalyzer ==
    \/ VisitClassDef
    \/ VisitFunctionDef
    \/ VisitCall
    \/ StartPass2
    \/ ReturnStructure

SpecAnalyzer == InitAnalyzer /\ [][NextAnalyzer]_vars

\* ------------------------------------------------- analyzer: properties
Calls(n) == IF HasKey(n, "calls") THEN Range(n.calls) ELSE {}
CalledBy(n) == IF HasKey(n, "called_by") THEN Range(n.called_by) ELSE {}
Instantiates(n) == IF HasKey(n, "instantiates") THEN Range(n.instantiates) ELSE {}
InstantiatedBy(n) == IF HasKey(n, "instantiated_by") THEN Range(n.instantiated_by) ELSE {}
Def(id) == heap[definitions[id]]
HasEdges(n) == Calls(n) \cup CalledBy(n) \cup Instantiates(n) \cup InstantiatedBy(n) # {}

\* index of the definition header whose body holds node i (0: module level)
EnclosingHeader(s, i) ==
    LET hs == {j \in 1..(i - 1) : s[j].kind # "call"}
    IN IF hs = {} THEN 0 ELSE CHOOSE j \in hs : \A k \in hs : k <= j

\* the nodes of the returned tree: root children and their children
TreeOccurrences ==
    {<<k, 0>> : k \in DOMAIN rootChildren}
        \cup {<<k, j>> \in (DOMAIN rootChildren) \X (1..Len(heap)) :
                 /\ HasKey(heap[rootChildren[k]], "children")
                 /\ j \in DOMAIN heap[rootChildren[k]].children}
ObjectAt(occ) ==
    IF occ[2] = 0 THEN rootChildren[occ[1]]
    ELSE heap[rootChildren[occ[1]]].children[occ[2]]

\* C1: after build_structure returns, calls/called_by and
\* instantiates/instantiated_by are inverse relations over the index, and
\* every id in a calls or instantiates list is a key of the index.
C1_BidirectionalEdges ==
    pc = "returned" =>
        /\ \A x \in DOMAIN definitions : \A y \in DOMAIN definitions :
              /\ (y \in Calls(Def(x))) <=> (x \in CalledBy(Def(y)))
              /\ (y \in Instantiates(Def(x))) <=> (x \in InstantiatedBy(Def(y)))
        /\ \A x \in DOMAIN definitions :
              Calls(Def(x)) \cup Instantiates(Def(x)) \subseteq DOMAIN definitions

C1_Witness ==
    /\ pc = "returned"
    /\ \E x \in DOMAIN definitions : Calls(Def(x)) # {}
    /\ \E x \in DOMAIN definitions : Instantiates(Def(x)) # {}

\* C2: a call named n in the body of method C.m, where C.n is a definition
\* of the file, yields the call edge C.m -> C.n and neither a call nor an
\* instantiation edge from C.m to the bare id n.
C2_SiblingMethodFirst ==
    pc = "returned" =>
        \A i \in DOMAIN src :
            LET j == EnclosingHeader(src, i) IN
            (/\ src[i].kind = "call" /\ src[i].name # NoName
             /\ j # 0 /\ src[j].kind = "method"
             /\ <<FuncId(src, j)[1], src[i].name>> \in DOMAIN definitions)
            => LET caller == Def(FuncId(src, j))
                   sibling == <<FuncId(src, j)[1], src[i].name>>
               IN /\ sibling \in Calls(caller)
                  /\ <<src[i].name>> \notin Calls(caller)
                  /\ <<src[i].name>> \notin Instantiates(caller)

\* C3: every definition id occurs in at most one node of the returned tree,
\* and that node is the one registered in the index.
C3_OneNodePerId ==
    pc = "returned" =>
        \A id \in DOMAIN definitions :
            LET occs == {occ \in TreeOccurrences : heap[ObjectAt(occ)].id = id}
            IN /\ Cardinality(occs) <= 1
               /\ \A occ \in occs : ObjectAt(occ) = definitions[id]

\* C4: edge resolution always succeeds: the analysis of a parseable source
\* never ends with the error structure.
C4_NoAnalysisError == pc # "error"

\* C10: no edge list of any node is non-empty while pass 1 is running.
C10_NoEdgeDuringPass1 ==
    pc = "pass1" => \A o \in DOMAIN heap : ~HasEdges(heap[o])

\* -------------------------------------------------- patcher: properties
Stored == original_code_store[FileId]
Served(t) == tpc[t] = "respond"
Succeeded(t) == Served(t) /\ response[t] = "ok"
LineCount(text) == Len(SplitLines(text))

\* a range the specification calls invalid for a text of n lines
InvalidRangeFor(n, start_line, end_line) ==
    start_line < 1 \/ end_line > n \/ start_line > end_line

\* C5: a successful patch of lines s..e of an n-line text with a k-line
\* replacement stores n - (e - s + 1) + k lines: the original lines before s,
\* the replacement lines, then the original lines after e.
C5_SplicedLines ==
    Succeeded(1) =>
        LET old == SplitLines(original_code[1])
            new == SplitLines(Stored)
            s == req[1].start_line
            e == req[1].end_line
            n == Len(old)
            k == LineCount(req[1].edited_code)
            repl == SplitLines(WithNewline(req[1].edited_code))
        IN /\ Len(new) = n - (e - s + 1) + k
           /\ \A i \in 1..(s - 1) : new[i] = old[i]
           /\ \A i \in 1..k : new[s - 1 + i] = repl[i]
           /\ \A i \in (e + 1)..n : new[i - (e - s + 1) + k] = old[i]

\* C6: the step that validates a request whose range is invalid for the
\* currently stored text answers InvalidRange and changes neither the store
\* nor the saved file.
C6_InvalidRangeRejected ==
    [][(/\ tpc[1] = "read" /\ tpc'[1] \in {"open", "respond"}
        /\ CanLocate(original_code_store, uploads, FileId)
        /\ InvalidRangeFor(
               LineCount(ReadOriginal(original_code_store, uploads, FileId)),
               req[1].start_line, req[1].end_line))
       => (/\ tpc'[1] = "respond"
           /\ response'[1] = "InvalidRange"
           /\ original_code_store' = original_code_store
           /\ uploads' = uploads)]_vars

C6_Witness ==
    /\ Served(1) /\ response[1] = "InvalidRange"
    /\ FileId \in DOMAIN original_code_store
    /\ Stored # <<>>
    /\ req[1].start_line >= 1 /\ req[1].start_line <= req[1].end_line
    /\ req[1].end_line > LineCount(Stored)

\* C7: a successful patch of lines s..e with the text of the original lines
\* s..e leaves the stored text identical to the text before the patch.
C7_NoOpPatch ==
    (/\ Succeeded(1)
     /\ req[1].edited_code =
            Join(SubSeq(SplitLines(original_code[1]), req[1].start_line, req[1].end_line)))
    => Stored = original_code[1]

\* C8: with requests served one after another, the store always holds the
\* text last committed, and a request is validated against and spliced into
\* that text: it succeeds and stores its splice when its range is valid for
\* the committed text, and is rejected, the store unchanged, otherwise.
C8_SequentialBaseline ==
    /\ (FileId \in DOMAIN original_code_store => Stored = baseline)
    /\ (Served(1) /\ response[1] \in {"ok", "InvalidRange"} /\ base[1] # NoText)
       => /\ original_code[1] = base[1]
          /\ FileId \in DOMAIN original_code_store
          /\ IF InvalidRangeFor(LineCount(base[1]), req[1].start_line, req[1].end_line)
             THEN response[1] = "InvalidRange" /\ Stored = base[1]
             ELSE /\ response[1] = "ok"
                  /\ Stored = PatchText(base[1], req[1].start_line, req[1].end_line,
                                        req[1].edited_code)

\* a range that was valid for the uploaded text is rejected after an earlier
\* patch made the text shorter
C8_Witness ==
    /\ Served(1) /\ response[1] = "InvalidRange"
    /\ lastCommitter = 1 /\ base[1] # NoText
    /\ ~InvalidRangeFor(uploadedLines, req[1].start_line, req[1].end_line)
    /\ req[1].end_line > LineCount(base[1])

\* both threads read the record before either began to write it back, and
\* both have committed
BothReadBeforeEitherCommit ==
    /\ Served(1) /\ Served(2)
    /\ writesSince[1] = 4 /\ writesSince[2] = 4

\* C9: when two requests both read the record before either commits, both
\* succeed and the store ends with the last committer's splice of the text
\* they both read: the first committer's edit is gone.
C9_LastWriterWins ==
    BothReadBeforeEitherCommit =>
        LET last == lastCommitter
            first == CHOOSE t \in Threads : t # lastCommitter
        IN /\ response[1] = "ok" /\ response[2] = "ok"
           /\ original_code[last] = original_code[first]
           /\ Stored = PatchText(original_code[first], req[last].start_line,
                                 req[last].end_line, req[last].edited_code)

\* the race with two different edits: the stored text is not what either
\* order of the two patches, one after the other, would have stored
C9_Witness ==
    /\ BothReadBeforeEitherCommit
    /\ req[1] # req[2]
    /\ Stored # modified_code[CHOOSE t \in Threads : t # lastCommitter]
    /\ LET first == CHOOSE t \in Threads : t # lastCommitter
           afterFirst == modified_code[first]
       IN ValidRange(afterFirst, req[lastCommitter].start_line, req[lastCommitter].end_line)
          => Stored # PatchText(afterFirst, req[lastCommitter].start_line,
                                req[lastCommitter].end_line, req[lastCommitter].edited_code)

====
